---- MODULE Spec2Model ----
(***************************************************************************)
(* A model of the Dublin Core metadata editor for DOCX files:              *)
(*   dublincore/dublincore.go  the metadata record                         *)
(*   docx/docx.go              the container codec (Open, decode, Save)    *)
(*   ui/editor.go              the edit form                               *)
(*   the command line shell    editWithTUI, hasChanges, createBackup       *)
(* Text is modelled as TLA+ strings, byte for byte; a record field is a    *)
(* sequence of strings, as a Go []string.                                  *)
(***************************************************************************)
EXTENDS Integers, Sequences, FiniteSets, TLC

VARIABLES
    fs,          \* the file system: path -> file content (or NoFile)
    args,        \* the command line: [filePath, outputPath]
    pc,          \* position of editWithTUI
    clock,       \* the wall clock, in seconds
    doc,         \* the container returned by docx.Open (or NoDoc)
    originalDC,  \* editWithTUI's copy of the five fields before the edit
    m,           \* the form's model (ui.model)
    keys,        \* number of text keys handled in the session
    updatedDC,   \* what ui.RunEditor returned: [dc, cancelled]
    ops,         \* the file operations performed so far, in order
    exit,        \* how the command ended
    probe        \* what a specification observes: the container Open
                 \* returned, or the input and result of a function applied
                 \* on its own

vars == <<fs, args, pc, clock, doc, originalDC, m, keys, updatedDC, ops, exit, probe>>

(***************************************************************************)
(* Bounds of the model.                                                    *)
(***************************************************************************)
MaxKeys == 2        \* text keys (a character or backspace) per edit session
MaxClock == 1       \* latest second the command is run at
MaxVals == 2        \* values per field of a generated record or entry

(***************************************************************************)
(* package strings                                                         *)
(***************************************************************************)
\* F applied to the value of v: v is evaluated once, as a statement that
\* assigns a local variable is, however often F uses it.
With(v, F(_)) == CHOOSE y \in {F(x) : x \in {v}} : TRUE

\* s[i:j] of Go, with 0-based byte offsets.
Slice(s, i, j) == SubSeq(s, i + 1, j)

\* s[i:] of Go.
SliceFrom(s, i) == SubSeq(s, i + 1, Len(s))

\* strings.Index: the 0-based offset of the first occurrence, or -1.
Index(s, sub) ==
    LET hits == {i \in 0..(Len(s) - Len(sub)) : Slice(s, i, i + Len(sub)) = sub}
    IN  IF hits = {} THEN -1 ELSE CHOOSE i \in hits : \A j \in hits : i <= j

IsSpace(c) == c \in {" ", "\t", "\n", "\r"}

RECURSIVE TrimLeft(_)
TrimLeft(s) ==
    IF Len(s) > 0 /\ IsSpace(SubSeq(s, 1, 1)) THEN TrimLeft(Tail(s)) ELSE s

RECURSIVE TrimRight(_)
TrimRight(s) ==
    IF Len(s) > 0 /\ IsSpace(SubSeq(s, Len(s), Len(s)))
    THEN TrimRight(SubSeq(s, 1, Len(s) - 1)) ELSE s

\* strings.TrimSpace
TrimSpace(s) == TrimRight(TrimLeft(s))

\* strings.Join
RECURSIVE Join(_, _)
Join(elems, sep) ==
    IF Len(elems) = 0 THEN ""
    ELSE IF Len(elems) = 1 THEN elems[1]
    ELSE elems[1] \o sep \o Join(Tail(elems), sep)

\* strings.Split with a one-byte separator: never empty, keeps empty pieces.
RECURSIVE Split(_, _)
Split(s, sep) ==
    LET i == Index(s, sep)
    IN  IF i = -1 THEN <<s>>
        ELSE <<Slice(s, 0, i)>> \o Split(SliceFrom(s, i + Len(sep)), sep)

(***************************************************************************)
(* package dublincore                                                      *)
(***************************************************************************)
DCNS == "http://purl.org/dc/elements/1.1/"
DCTermsNS == "http://purl.org/dc/terms/"
CPNS == "http://schemas.openxmlformats.org/package/2006/metadata/core-properties"
XSINS == "http://www.w3.org/2001/XMLSchema-instance"
DOCXMime == "application/vnd.openxmlformats-officedocument.wordprocessingml.document"

\* type DublinCore struct: the zero value.
ZeroDC ==
    [Title |-> <<>>, Creator |-> <<>>, Subject |-> <<>>, Description |-> <<>>,
     Publisher |-> <<>>, Contributor |-> <<>>, Date |-> <<>>, Type |-> <<>>,
     Format |-> <<>>, Identifier |-> <<>>, Source |-> <<>>, Language |-> <<>>,
     Relation |-> <<>>, Coverage |-> <<>>, Rights |-> <<>>,
     Keywords |-> <<>>, Category |-> <<>>]

\* time.Now().Format(time.RFC3339) at second t of the model's clock.
RFC3339(t) == "2026-01-01T00:00:0" \o SubSeq("0123456789", t + 1, t + 1) \o "Z"

\* dublincore.New at time t.
New(t) ==
    [ZeroDC EXCEPT !.Date = <<RFC3339(t)>>,
                   !.Format = <<DOCXMime>>,
                   !.Category = <<"curriculo">>]

SetTitle(dc, title) == [dc EXCEPT !.Title = <<title>>]
AddCreator(dc, creator) == [dc EXCEPT !.Creator = Append(@, creator)]
SetDescription(dc, description) == [dc EXCEPT !.Description = <<description>>]
AddKeyword(dc, keyword) == [dc EXCEPT !.Keywords = Append(@, keyword)]
\* A SetCategory that keeps a category the record already has.
SetCategoryIfEmpty(dc) ==
    IF Len(dc.Category) = 0 THEN [dc EXCEPT !.Category = <<"curriculo">>] ELSE dc

SetCategory(dc) == [dc EXCEPT !.Category = <<"curriculo">>]

(***************************************************************************)
(* package encoding/xml, as far as the program uses it.  A document is     *)
(* kept as the tokens a decoder reads from it and rendered to its bytes    *)
(* by Render.                                                              *)
(*   document  [wf, prolog, root, attrs, indent, kids]                     *)
(*   element   [tag, attrs, text, wrap]   (wrap: the tag of an element     *)
(*             that encloses it, "" for a direct child of the root)        *)
(*   attribute [name, value]                                               *)
(***************************************************************************)
Attr(name, value) == [name |-> name, value |-> value]
Elem(tag, text) == [tag |-> tag, attrs |-> <<>>, text |-> text, wrap |-> ""]
ElemNS(tag, xmlns, text) ==
    [tag |-> tag, attrs |-> <<Attr("xmlns", xmlns)>>, text |-> text, wrap |-> ""]
Wrapped(wrap, tag, text) == [tag |-> tag, attrs |-> <<>>, text |-> text, wrap |-> wrap]

\* The part of a tag before and after its colon.
Prefix(tag) == LET i == Index(tag, ":") IN IF i = -1 THEN "" ELSE Slice(tag, 0, i)
Local(tag) == LET i == Index(tag, ":") IN IF i = -1 THEN tag ELSE SliceFrom(tag, i + 1)

\* The value of the attribute called name, or "" when there is none.
RECURSIVE AttrValue(_, _)
AttrValue(attrs, name) ==
    IF Len(attrs) = 0 THEN ""
    ELSE IF attrs[1].name = name THEN attrs[1].value
    ELSE AttrValue(Tail(attrs), name)

HasAttr(attrs, name) == \E i \in 1..Len(attrs) : attrs[i].name = name

\* Decoder.translate: the name space of an element. A declared prefix gives
\* its URI, an undeclared one is kept as it is, no prefix gives the default
\* name space in scope.
Space(tag, own, outer) ==
    LET p == Prefix(tag)
    IN  IF p = ""
        THEN IF HasAttr(own, "xmlns") THEN AttrValue(own, "xmlns")
             ELSE AttrValue(outer, "xmlns")
        ELSE IF HasAttr(own, "xmlns:" \o p) THEN AttrValue(own, "xmlns:" \o p)
        ELSE IF HasAttr(outer, "xmlns:" \o p) THEN AttrValue(outer, "xmlns:" \o p)
        ELSE p

\* xml.EscapeText, one byte.
EscapeChar(c) ==
    CASE c = "\"" -> "&#34;"
      [] c = "'"  -> "&#39;"
      [] c = "&"  -> "&amp;"
      [] c = "<"  -> "&lt;"
      [] c = ">"  -> "&gt;"
      [] c = "\t" -> "&#x9;"
      [] c = "\n" -> "&#xA;"
      [] c = "\r" -> "&#xD;"
      [] OTHER    -> c

RECURSIVE EscapeText(_)
EscapeText(s) ==
    IF Len(s) = 0 THEN "" ELSE EscapeChar(SubSeq(s, 1, 1)) \o EscapeText(Tail(s))

RECURSIVE RenderAttrs(_)
RenderAttrs(attrs) ==
    IF Len(attrs) = 0 THEN ""
    ELSE " " \o attrs[1].name \o "=\"" \o EscapeText(attrs[1].value) \o "\""
         \o RenderAttrs(Tail(attrs))

RenderElem(e) ==
    LET inner == "<" \o e.tag \o RenderAttrs(e.attrs) \o ">" \o EscapeText(e.text)
                 \o "</" \o e.tag \o ">"
    IN  IF e.wrap = "" THEN inner
        ELSE "<" \o e.wrap \o ">" \o inner \o "</" \o e.wrap \o ">"

\* The line break before a child: MarshalIndent's, or none.
Break(indent, depth) ==
    IF indent = "" THEN "" ELSE IF depth = 0 THEN "\n" ELSE "\n" \o indent

RECURSIVE RenderKids(_, _)
RenderKids(kids, indent) ==
    IF Len(kids) = 0 THEN ""
    ELSE Break(indent, 1) \o RenderElem(kids[1]) \o RenderKids(Tail(kids), indent)

\* Bytes that are no XML at all: no root, the bytes are kept as the prolog.
Raw(bytes) ==
    [wf |-> FALSE, prolog |-> bytes, root |-> "", attrs |-> <<>>, indent |-> "",
     kids |-> <<>>]

\* The bytes of a document. One that is not well formed lacks its end tag.
Render(d) ==
    IF d.root = "" THEN d.prolog
    ELSE d.prolog \o "<" \o d.root \o RenderAttrs(d.attrs) \o ">"
         \o RenderKids(d.kids, d.indent)
         \o (IF d.wf
             THEN (IF Len(d.kids) > 0 THEN Break(d.indent, 0) ELSE "")
                  \o "</" \o d.root \o ">"
             ELSE "")

\* One element per value of a []string field; with omitempty none for an
\* empty field, and a field without values writes none either way.
RECURSIVE Elems(_, _)
Elems(tag, values) ==
    IF Len(values) = 0 THEN <<>>
    ELSE <<Elem(tag, values[1])>> \o Elems(tag, Tail(values))

RECURSIVE ElemsNS(_, _, _)
ElemsNS(tag, xmlns, values) ==
    IF Len(values) = 0 THEN <<>>
    ELSE <<ElemNS(tag, xmlns, values[1])>> \o ElemsNS(tag, xmlns, Tail(values))

\* DublinCore.ToXML: xml.MarshalIndent(dc, "", "  ").
DCToXML(dc) ==
    [wf |-> TRUE, prolog |-> "", root |-> "dc",
     attrs |-> <<Attr("xmlns", DCNS)>>, indent |-> "  ",
     kids |-> Elems("title", dc.Title) \o Elems("creator", dc.Creator)
              \o Elems("subject", dc.Subject) \o Elems("description", dc.Description)
              \o Elems("publisher", dc.Publisher) \o Elems("contributor", dc.Contributor)
              \o Elems("date", dc.Date) \o Elems("type", dc.Type)
              \o Elems("format", dc.Format) \o Elems("identifier", dc.Identifier)
              \o Elems("source", dc.Source) \o Elems("language", dc.Language)
              \o Elems("relation", dc.Relation) \o Elems("coverage", dc.Coverage)
              \o Elems("rights", dc.Rights)
              \o ElemsNS("keyword", DCTermsNS, dc.Keywords)
              \o ElemsNS("type", DCTermsNS, dc.Category)]

\* The fields of DublinCore in declaration order, as (field, name, xmlns).
\* Type (name "type", no namespace) and Category (name "type" in the terms
\* namespace) are taken as two fields, as an encoding/xml that tells tags
\* apart by namespace takes them; one that does not rejects the struct, and
\* ToXML and FromXML then fail for every record.
DCFields ==
    <<<<"Title", "title", "">>, <<"Creator", "creator", "">>,
      <<"Subject", "subject", "">>, <<"Description", "description", "">>,
      <<"Publisher", "publisher", "">>, <<"Contributor", "contributor", "">>,
      <<"Date", "date", "">>, <<"Type", "type", "">>, <<"Format", "format", "">>,
      <<"Identifier", "identifier", "">>, <<"Source", "source", "">>,
      <<"Language", "language", "">>, <<"Relation", "relation", "">>,
      <<"Coverage", "coverage", "">>, <<"Rights", "rights", "">>,
      <<"Keywords", "keyword", DCTermsNS>>, <<"Category", "type", DCTermsNS>>>>

\* unmarshalPath: the field an element goes to is the first, in declaration
\* order, whose name is the element's and whose name space, if it has one, is
\* the element's; "" when no field takes it.
FieldFor(fields, e, outer) ==
    LET ok == {i \in 1..Len(fields) :
                  /\ fields[i][2] = Local(e.tag)
                  /\ (fields[i][3] = "" \/ fields[i][3] = Space(e.tag, e.attrs, outer))}
    IN  IF ok = {} THEN "" ELSE fields[CHOOSE i \in ok : \A j \in ok : i <= j][1]

\* The values field f receives from the direct children of the root.
RECURSIVE Received(_, _, _, _)
Received(kids, outer, fields, f) ==
    IF Len(kids) = 0 THEN <<>>
    ELSE (IF kids[1].wrap = "" /\ FieldFor(fields, kids[1], outer) = f
          THEN <<kids[1].text>> ELSE <<>>)
         \o Received(Tail(kids), outer, fields, f)

\* xml.Unmarshal(data, &dc) for a DublinCore: [err, dc]. The root must be
\* <dc> in the Dublin Core elements name space.
UnmarshalDC(d) ==
    IF ~d.wf \/ Local(d.root) # "dc" \/ Space(d.root, d.attrs, <<>>) # DCNS
    THEN [err |-> TRUE, dc |-> ZeroDC]
    ELSE [err |-> FALSE,
          dc |-> [f \in DOMAIN ZeroDC |-> Received(d.kids, d.attrs, DCFields, f)]]

\* dublincore.FromXML
FromXML(d) == UnmarshalDC(d)

(***************************************************************************)
(* package docx                                                            *)
(***************************************************************************)
corePropertiesPath == "docProps/core.xml"

\* A ToXML that writes the keywords as one comma-separated element.
CorePropertiesToXMLJoined(dc) ==
    [wf |-> TRUE,
     prolog |-> "<?xml version=\"1.0\" encoding=\"UTF-8\" standalone=\"yes\"?>\n",
     root |-> "cp:coreProperties",
     attrs |-> <<Attr("xmlns:cp", CPNS), Attr("xmlns:dc", DCNS),
                 Attr("xmlns:dcterms", DCTermsNS), Attr("xmlns:xsi", XSINS)>>,
     indent |-> "  ",
     kids |-> Elems("dc:title", dc.Title) \o Elems("dc:creator", dc.Creator)
              \o Elems("dc:subject", dc.Subject)
              \o Elems("dc:description", dc.Description)
              \o (IF Len(dc.Keywords) = 0 THEN <<>>
                  ELSE <<Elem("cp:keywords", Join(dc.Keywords, ", "))>>)
              \o Elems("cp:category", dc.Category)]

\* CoreProperties.ToXML for the struct writeCoreProperties fills from dc.
CorePropertiesToXML(dc) ==
    [wf |-> TRUE,
     prolog |-> "<?xml version=\"1.0\" encoding=\"UTF-8\" standalone=\"yes\"?>\n",
     root |-> "cp:coreProperties",
     attrs |-> <<Attr("xmlns:cp", CPNS), Attr("xmlns:dc", DCNS),
                 Attr("xmlns:dcterms", DCTermsNS), Attr("xmlns:xsi", XSINS)>>,
     indent |-> "  ",
     kids |-> Elems("dc:title", dc.Title) \o Elems("dc:creator", dc.Creator)
              \o Elems("dc:subject", dc.Subject)
              \o Elems("dc:description", dc.Description)
              \o Elems("cp:keywords", dc.Keywords)
              \o Elems("cp:category", dc.Category)]

\* DOCX.writeCoreProperties: the entry it adds to the archive being written.
writeCoreProperties(d) ==
    [name |-> corePropertiesPath, data |-> CorePropertiesToXML(d.DublinCore),
     readable |-> TRUE]

\* Fields that match an element only in the namespace Save writes it in.
CoreFieldsStrict ==
    <<<<"Title", "title", DCNS>>, <<"Creator", "creator", DCNS>>,
      <<"Subject", "subject", DCNS>>, <<"Description", "description", DCNS>>,
      <<"Keywords", "keywords", CPNS>>, <<"Category", "category", CPNS>>>>

\* The fields of the struct parseCoreXML decodes into.
CoreFields ==
    <<<<"Title", "title", "">>, <<"Creator", "creator", "">>,
      <<"Subject", "subject", "">>, <<"Description", "description", "">>,
      <<"Keywords", "keywords", "">>, <<"Category", "category", "">>>>

\* The result of a decoding step: kind is "ok", "err" (an error is
\* returned), "panic" (the Go runtime aborts the process) or "hang" (the
\* step never returns).
Res(kind, dc) == [kind |-> kind, dc |-> dc]

\* extractField's loop from search position start on, having collected
\* values; seen holds the positions the loop has started an iteration at.
\* The loop keeps no other state than start, so a position met again is met
\* for ever.
RECURSIVE extractLoop(_, _, _, _, _)
extractLoop(xmlStr, tag, start, values, seen) ==
    LET startTag == "<" \o tag \o ">"
        endTag == "</" \o tag \o ">"
    IN  IF start = -1 THEN [kind |-> "ok", values |-> values]
        ELSE IF start \in seen THEN [kind |-> "hang", values |-> values]
        ELSE With(Index(SliceFrom(xmlStr, start), endTag), LAMBDA end :
             IF end = -1 THEN [kind |-> "ok", values |-> values]
             ELSE IF start + Len(startTag) > start + end
             THEN [kind |-> "panic", values |-> values]
             ELSE With(Slice(xmlStr, start + Len(startTag), start + end), LAMBDA value :
                  With(Index(SliceFrom(xmlStr, start + end + Len(endTag)), startTag),
                       LAMBDA next :
                  With(IF next # -1 THEN next + end + Len(endTag) ELSE -1,
                       LAMBDA start2 :
                  With(Append(values, TrimSpace(value)), LAMBDA values2 :
                       extractLoop(xmlStr, tag, start2, values2, seen \cup {start}))))))

\* parseCoreXMLAlternative's extractField closure.
extractField(xmlStr, tag) ==
    With(Index(xmlStr, "<" \o tag \o ">"), LAMBDA start :
         extractLoop(xmlStr, tag, start, <<>>, {}))

possibleTags ==
    <<"dc:title", "title", "cp:title",
      "dc:creator", "creator", "cp:creator",
      "dc:subject", "subject", "cp:subject",
      "dc:description", "description", "cp:description",
      "cp:keywords", "keywords",
      "cp:category", "category">>

\* The switch of parseCoreXMLAlternative: the field a tag is stored in.
TagField(tag) ==
    CASE tag \in {"dc:title", "title", "cp:title"} -> "Title"
      [] tag \in {"dc:creator", "creator", "cp:creator"} -> "Creator"
      [] tag \in {"dc:subject", "subject", "cp:subject"} -> "Subject"
      [] tag \in {"dc:description", "description", "cp:description"} -> "Description"
      [] tag \in {"cp:keywords", "keywords"} -> "Keywords"
      [] tag \in {"cp:category", "category"} -> "Category"

\* The loop over possibleTags from tag i on.
RECURSIVE alternativeLoop(_, _, _)
alternativeLoop(xmlStr, i, dc) ==
    IF i > Len(possibleTags) THEN Res("ok", dc)
    ELSE With(extractField(xmlStr, possibleTags[i]), LAMBDA r :
         IF r.kind # "ok" THEN Res(r.kind, dc)
         ELSE With(IF Len(r.values) > 0
                   THEN [dc EXCEPT ![TagField(possibleTags[i])] = r.values]
                   ELSE dc,
                   LAMBDA dc2 : alternativeLoop(xmlStr, i + 1, dc2)))

\* parseCoreXMLAlternative on the bytes of the entry, at time t.
parseCoreXMLAlternative(data, t) ==
    With(Render(data), LAMBDA xmlStr :
    With(New(t), LAMBDA dc : alternativeLoop(xmlStr, 1, dc)))

\* The if-chain of parseCoreXML: a decoded field replaces the default when it
\* has values.
MapCoreProps(dc, coreProps) ==
    [f \in DOMAIN dc |->
        IF f \in DOMAIN coreProps /\ Len(coreProps[f]) > 0 THEN coreProps[f] ELSE dc[f]]

\* The test parseCoreXML accepts its strict decode by.
FoundAnyData(dc) ==
    Len(dc.Title) > 0 \/ Len(dc.Creator) > 0 \/ Len(dc.Keywords) > 0
    \/ Len(dc.Description) > 0

\* parseCoreXML on the bytes of the entry, at time t.
parseCoreXML(data, t) ==
    IF ~data.wf \/ Local(data.root) # "coreProperties"
    THEN Res("err", ZeroDC)
    ELSE With([f \in {"Title", "Creator", "Subject", "Description", "Keywords",
                      "Category"} |-> Received(data.kids, data.attrs, CoreFields, f)],
              LAMBDA coreProps :
         With(MapCoreProps(New(t), coreProps), LAMBDA dc :
              IF FoundAnyData(dc) THEN Res("ok", dc)
              ELSE parseCoreXMLAlternative(data, t)))

\* The test extractDublinCore accepts parseCoreXML's record by.
Usable(dc) == Len(dc.Title) > 0 \/ Len(dc.Creator) > 0 \/ Len(dc.Keywords) > 0

\* extractDublinCore on the bytes of the entry, at time t.
extractDublinCore(data, t) ==
    With(parseCoreXML(data, t), LAMBDA r :
         IF r.kind \in {"panic", "hang"} THEN r
         ELSE IF r.kind = "ok" /\ Usable(r.dc) THEN r
         ELSE With(UnmarshalDC(data), LAMBDA raw :
                   IF raw.err THEN Res("err", ZeroDC) ELSE Res("ok", raw.dc)))

(***************************************************************************)
(* The archive and the file system.                                        *)
(*   entry  [name, data, readable]   data: the entry's bytes as a          *)
(*          document; readable: whether zip.File.Open and the reads that   *)
(*          follow succeed (FALSE for a corrupt entry)                     *)
(*   file   [zip, entries]   zip: whether zip.NewReader accepts the bytes  *)
(***************************************************************************)
NoFile == [zip |-> FALSE, entries |-> <<>>, exists |-> FALSE]
File(zip, entries) == [zip |-> zip, entries |-> entries, exists |-> TRUE]
Entry(name, data) == [name |-> name, data |-> data, readable |-> TRUE]
NoDoc == [FilePath |-> "", DublinCore |-> ZeroDC, FileData |-> NoFile]

\* findFile: the index of the first entry called name, 0 when there is none.
findFile(entries, name) ==
    LET hits == {i \in 1..Len(entries) : entries[i].name = name}
    IN  IF hits = {} THEN 0 ELSE CHOOSE i \in hits : \A j \in hits : i <= j

\* An Open that takes whatever the file holds, archive or not.
OpenAnyFile(files, filePath, t) ==
    [kind |-> "ok",
     doc |-> [FilePath |-> filePath, DublinCore |-> New(t), FileData |-> files[filePath]]]

\* docx.Open of the file at filePath, at time t: [kind, doc], kind as for Res.
Open(files, filePath, t) ==
    LET fileData == files[filePath]
        docx == [FilePath |-> filePath, DublinCore |-> New(t), FileData |-> fileData]
        i == findFile(fileData.entries, corePropertiesPath)
    IN  IF ~fileData.exists THEN [kind |-> "err", doc |-> NoDoc]
        ELSE IF ~fileData.zip THEN [kind |-> "err", doc |-> NoDoc]
        ELSE IF i = 0 \/ ~fileData.entries[i].readable
        THEN [kind |-> "ok", doc |-> docx]
        ELSE With(extractDublinCore(fileData.entries[i].data, t), LAMBDA r :
                  IF r.kind \in {"panic", "hang"}
                  THEN [kind |-> r.kind, doc |-> NoDoc]
                  ELSE IF r.kind = "ok"
                  THEN [kind |-> "ok", doc |-> [docx EXCEPT !.DublinCore = r.dc]]
                  ELSE [kind |-> "ok", doc |-> docx])

\* The loop of DOCX.Save from entry i on, written being the entries of the
\* output so far; the write of entry failAt fails (0: none does). An entry
\* that cannot be read fails the copy by itself. [err, entries]
RECURSIVE saveLoop(_, _, _, _)
saveLoop(d, i, failAt, written) ==
    LET src == d.FileData.entries
    IN  IF i > Len(src) THEN [err |-> FALSE, entries |-> written]
        ELSE IF i = failAt THEN [err |-> TRUE, entries |-> written]
        ELSE IF src[i].name = corePropertiesPath
        THEN saveLoop(d, i + 1, failAt, Append(written, writeCoreProperties(d)))
        ELSE IF ~src[i].readable THEN [err |-> TRUE, entries |-> written]
        ELSE saveLoop(d, i + 1, failAt, \* copyZipFile
                      Append(written, Entry(src[i].name, src[i].data)))

\* A Save that reads the entries from the file at the output path.
SaveFromDestination(d, files, outputPath, failAt, closeOk) ==
    LET path == IF outputPath = "" THEN d.FilePath ELSE outputPath
    IN  IF ~files[path].zip \/ failAt = -1 THEN [err |-> TRUE, files |-> files]
        ELSE With(saveLoop([d EXCEPT !.FileData = files[path]], 1, failAt, <<>>),
                  LAMBDA r : [err |-> r.err,
                              files |-> [files EXCEPT ![path] = File(closeOk, r.entries)]])

\* DOCX.Save: [err, files]. failAt = -1: os.Create fails; closeOk: whether the
\* deferred zipWriter.Close, whose error is dropped, writes the directory.
Save(d, files, outputPath, failAt, closeOk) ==
    LET path == IF outputPath = "" THEN d.FilePath ELSE outputPath
    IN  IF ~d.FileData.zip THEN [err |-> TRUE, files |-> files]
        ELSE IF failAt = -1 THEN [err |-> TRUE, files |-> files]
        ELSE With(saveLoop(d, 1, failAt, <<>>), LAMBDA r :
                  [err |-> r.err,
                   files |-> [files EXCEPT ![path] = File(closeOk, r.entries)]])

(***************************************************************************)
(* package ui                                                              *)
(***************************************************************************)
NumInputs == 4

Placeholder ==
    <<"e.g., Senior Backend Developer",
      "e.g., Joao Silva, Maria Santos",   \* the source has a-tilde in Joao
      "e.g., Go, Backend, Microservices, PHP",
      "e.g., Experienced backend developer with 6+ years in technology">>

\* initialModel: the four inputs are pre-filled from the record. The form
\* holds the record by pointer: it is doc.DublinCore, not a copy.
initialModel(dc) ==
    [inputs |->
        <<IF Len(dc.Title) > 0 /\ dc.Title[1] # "" THEN dc.Title[1] ELSE "",
          IF Len(dc.Creator) > 0 THEN Join(dc.Creator, ", ") ELSE "",
          IF Len(dc.Keywords) > 0 THEN Join(dc.Keywords, ", ") ELSE "",
          IF Len(dc.Description) > 0 /\ dc.Description[1] # ""
          THEN dc.Description[1] ELSE "">>,
     focused |-> 0, done |-> FALSE, cancelled |-> FALSE]

\* The loops of updateDublinCoreFromInputs: the trimmed, non-empty pieces.
RECURSIVE TrimmedPieces(_)
TrimmedPieces(pieces) ==
    IF Len(pieces) = 0 THEN <<>>
    ELSE (IF TrimSpace(pieces[1]) # "" THEN <<TrimSpace(pieces[1])>> ELSE <<>>)
         \o TrimmedPieces(Tail(pieces))

\* model.updateDublinCoreFromInputs
updateDublinCoreFromInputs(inputs, dc) ==
    LET titleInput == TrimSpace(inputs[1])
        creatorsInput == TrimSpace(inputs[2])
        keywordsInput == TrimSpace(inputs[3])
        descriptionInput == TrimSpace(inputs[4])
        dc1 == IF titleInput # "" /\ titleInput # Placeholder[1]
               THEN SetTitle(dc, titleInput) ELSE dc
        dc2 == IF creatorsInput # "" /\ creatorsInput # Placeholder[2]
               THEN [dc1 EXCEPT !.Creator = TrimmedPieces(Split(creatorsInput, ","))]
               ELSE dc1
        dc3 == IF keywordsInput # "" /\ keywordsInput # Placeholder[3]
               THEN [dc2 EXCEPT !.Keywords = TrimmedPieces(Split(keywordsInput, ","))]
               ELSE dc2
        dc4 == IF descriptionInput # "" /\ descriptionInput # Placeholder[4]
               THEN SetDescription(dc3, descriptionInput) ELSE dc3
    IN  SetCategory(dc4)

\* A cycle that wraps one step late at the upper end.
CycleLate(focused, s) ==
    LET f == IF s \in {"up", "shift+tab"} THEN focused - 1 ELSE focused + 1
    IN  IF f > NumInputs + 1 THEN 0 ELSE IF f < 0 THEN NumInputs ELSE f

\* The focus index after a navigation key.
Cycle(focused, s) ==
    LET f == IF s \in {"up", "shift+tab"} THEN focused - 1 ELSE focused + 1
    IN  IF f > NumInputs THEN 0 ELSE IF f < 0 THEN NumInputs ELSE f

(***************************************************************************)
(* The command line shell                                                  *)
(***************************************************************************)
\* hasChanges
hasChanges(original, updated) ==
    \/ Join(original.Title, "|") # Join(updated.Title, "|")
    \/ Join(original.Creator, "|") # Join(updated.Creator, "|")
    \/ Join(original.Keywords, "|") # Join(updated.Keywords, "|")
    \/ Join(original.Description, "|") # Join(updated.Description, "|")

\* The copy editWithTUI keeps of the record before the edit.
CopyOriginal(dc) ==
    [ZeroDC EXCEPT !.Title = dc.Title, !.Creator = dc.Creator,
                   !.Keywords = dc.Keywords, !.Description = dc.Description,
                   !.Category = dc.Category]

\* A createBackup that does not report a failed write.
createBackupUnchecked(files, src, dst, how) ==
    IF ~files[src].exists \/ how = "read" THEN [err |-> TRUE, files |-> files]
    ELSE IF how = "write"
    THEN [err |-> FALSE, files |-> [files EXCEPT ![dst] = File(FALSE, <<>>)]]
    ELSE [err |-> FALSE, files |-> [files EXCEPT ![dst] = files[src]]]

\* createBackup: [err, files]. how = "ok", "read" (os.ReadFile fails) or
\* "write" (os.WriteFile fails, leaving a file that is cut short).
createBackup(files, src, dst, how) ==
    IF ~files[src].exists \/ how = "read" THEN [err |-> TRUE, files |-> files]
    ELSE IF how = "write"
    THEN [err |-> TRUE, files |-> [files EXCEPT ![dst] = File(FALSE, <<>>)]]
    ELSE [err |-> FALSE, files |-> [files EXCEPT ![dst] = files[src]]]

(***************************************************************************)
(* The inputs the model draws from.                                        *)
(***************************************************************************)
\* A metadata entry as a producer may write it: root and children, no
\* prolog, no attributes, no white space between the elements.
CoreDoc(root, kids) ==
    [wf |-> TRUE, prolog |-> "", root |-> root, attrs |-> <<>>, indent |-> "",
     kids |-> kids]

ContentTypes == Entry("[Content_Types].xml", Raw("types"))
Document == Entry("word/document.xml", Raw("body"))
Core(data) == Entry(corePropertiesPath, data)

\* The files the command is run on.
InputFiles ==
    { NoFile,
      \* not a zip archive
      File(FALSE, <<>>),
      \* an archive without a metadata entry
      File(TRUE, <<ContentTypes, Document>>),
      \* the five fields, with a category of its own
      File(TRUE, <<ContentTypes,
                   Core(CoreDoc("cp:coreProperties",
                                <<Elem("dc:title", "Old"), Elem("dc:creator", "x"),
                                  Elem("dc:creator", "y"), Elem("cp:keywords", "k"),
                                  Elem("dc:description", "d"),
                                  Elem("cp:category", "cv")>>)),
                   Document>>),
      \* a description and nothing else
      File(TRUE, <<Core(CoreDoc("cp:coreProperties", <<Elem("dc:description", "d")>>)),
                   Document>>),
      \* a subject and a category: the strict decode finds none of the four
      File(TRUE, <<Core(CoreDoc("coreProperties",
                                <<Elem("dc:subject", "s"), Elem("cp:category", "cv")>>)),
                   Document>>),
      \* two subjects
      File(TRUE, <<Core(CoreDoc("cp:coreProperties",
                                <<Elem("dc:subject", "a"), Elem("dc:subject", "b")>>)),
                   Document>>),
      \* two subjects, as Save writes them
      File(TRUE, <<Core([CorePropertiesToXML(ZeroDC) EXCEPT
                            !.kids = <<Elem("dc:subject", "a"), Elem("dc:subject", "b")>>]),
                   Document>>),
      \* an entry that is cut short
      File(TRUE, <<Core([CoreDoc("cp:coreProperties", <<Elem("dc:title", "Old")>>)
                         EXCEPT !.wf = FALSE]),
                   Document>>),
      \* corrupt entries
      File(TRUE, <<[Core(CoreDoc("cp:coreProperties", <<Elem("dc:title", "Old")>>))
                    EXCEPT !.readable = FALSE],
                   ContentTypes,
                   [Document EXCEPT !.readable = FALSE]>>) }

\* What out.docx holds before the command runs.
StaleFile == File(TRUE, <<Entry("stale", Raw("old"))>>)

\* The characters the user types.
Alphabet == {"a", ",", " "}

BackupPath(filePath) == filePath \o ".backup"

(***************************************************************************)
(* The edit command: editWithTUI, with the form's key handlers.  A key     *)
(* handler that returns tea.Quit ends the form: no further key is handled. *)
(***************************************************************************)
NoModel == [inputs |-> <<"", "", "", "">>, focused |-> 0, done |-> FALSE,
            cancelled |-> FALSE]
NoReturn == [dc |-> ZeroDC, cancelled |-> FALSE]

Init ==
    /\ \E f \in InputFiles :
          fs = [p \in {"in.docx", "in.docx.backup", "out.docx"} |->
                   IF p = "in.docx" THEN f
                   ELSE IF p = "out.docx" THEN StaleFile ELSE NoFile]
    /\ \E o \in {"", "out.docx", "in.docx"} :
          args = [filePath |-> "in.docx", outputPath |-> o]
    /\ pc = "start"
    /\ clock \in 0..MaxClock
    /\ doc = NoDoc
    /\ originalDC = ZeroDC
    /\ m = NoModel
    /\ keys = 0
    /\ updatedDC = NoReturn
    /\ ops = <<>>
    /\ exit = ""
    /\ probe = [opened |-> NoDoc]

\* editWithTUI up to the start of the form: docx.Open, the copy of the
\* original record, initialModel.
OpenDoc ==
    /\ pc = "start"
    /\ \E r \in {Open(fs, args.filePath, clock)} :
           IF r.kind = "ok"
           THEN /\ doc' = r.doc
                /\ probe' = [opened |-> r.doc]
                /\ originalDC' = CopyOriginal(r.doc.DublinCore)
                /\ m' = initialModel(r.doc.DublinCore)
                /\ pc' = "editing"
                /\ exit' = exit
           ELSE /\ pc' = IF r.kind = "hang" THEN "hung" ELSE "exit"
                /\ exit' = CASE r.kind = "err" -> "open failed"
                             [] r.kind = "panic" -> "panic"
                             [] OTHER -> exit
                /\ UNCHANGED <<doc, originalDC, m, probe>>
    /\ UNCHANGED <<fs, args, clock, keys, updatedDC, ops>>

\* A cancel that writes the inputs to the record before it quits.
KeyCancelCommits ==
    /\ pc = "editing"
    /\ m' = [m EXCEPT !.cancelled = TRUE]
    /\ doc' = [doc EXCEPT !.DublinCore = updateDublinCoreFromInputs(m.inputs, @)]
    /\ pc' = "quit"
    /\ UNCHANGED <<fs, args, clock, originalDC, keys, updatedDC, ops, exit, probe>>

\* model.Update, case "ctrl+c", "esc"
KeyCancel ==
    /\ pc = "editing"
    /\ m' = [m EXCEPT !.cancelled = TRUE]
    /\ pc' = "quit"
    /\ UNCHANGED <<fs, args, clock, doc, originalDC, keys, updatedDC, ops, exit, probe>>

\* model.Update, case "tab", "shift+tab", "up", "down"
KeyNav ==
    /\ pc = "editing"
    /\ \E s \in {"tab", "shift+tab", "up", "down"} :
          m' = [m EXCEPT !.focused = Cycle(m.focused, s)]
    /\ UNCHANGED <<fs, args, pc, clock, doc, originalDC, keys, updatedDC, ops, exit, probe>>

\* model.Update, case "enter": on the submit button the record is updated
\* through the pointer the form holds and the form quits; on an input the key
\* goes to the inputs, which ignore it.
KeyEnter ==
    /\ pc = "editing"
    /\ IF m.focused = NumInputs
       THEN /\ m' = [m EXCEPT !.done = TRUE]
            /\ doc' = [doc EXCEPT
                          !.DublinCore = updateDublinCoreFromInputs(m.inputs, @)]
            /\ pc' = "quit"
       ELSE UNCHANGED <<m, doc, pc>>
    /\ UNCHANGED <<fs, args, clock, originalDC, keys, updatedDC, ops, exit, probe>>

\* model.Update, any other key, through updateInputs: the focused input
\* appends a typed character at its end; with the button focused no input
\* has the focus.
KeyRune ==
    /\ pc = "editing"
    /\ keys < MaxKeys
    /\ m.focused < NumInputs
    /\ \E c \in Alphabet :
          m' = [m EXCEPT !.inputs[m.focused + 1] = @ \o c]
    /\ keys' = keys + 1
    /\ UNCHANGED <<fs, args, pc, clock, doc, originalDC, updatedDC, ops, exit, probe>>

\* model.Update, backspace, through updateInputs.
KeyBackspace ==
    /\ pc = "editing"
    /\ keys < MaxKeys
    /\ m.focused < NumInputs
    /\ Len(m.inputs[m.focused + 1]) > 0
    /\ m' = [m EXCEPT !.inputs[m.focused + 1] = SubSeq(@, 1, Len(@) - 1)]
    /\ keys' = keys + 1
    /\ UNCHANGED <<fs, args, pc, clock, doc, originalDC, updatedDC, ops, exit, probe>>

\* RunEditor after p.Run has returned the final model.
RunEditorReturn ==
    /\ pc = "quit"
    /\ updatedDC' = IF m.done THEN [dc |-> doc.DublinCore, cancelled |-> FALSE]
                    ELSE IF m.cancelled THEN [dc |-> doc.DublinCore, cancelled |-> TRUE]
                    ELSE [dc |-> doc.DublinCore, cancelled |-> FALSE]
    /\ pc' = "returned"
    /\ UNCHANGED <<fs, args, clock, doc, originalDC, m, keys, ops, exit, probe>>

\* RunEditor when p.Run fails.
RunEditorFails ==
    /\ pc = "editing"
    /\ pc' = "exit"
    /\ exit' = "editor failed"
    /\ UNCHANGED <<fs, args, clock, doc, originalDC, m, keys, updatedDC, ops, probe>>

\* editWithTUI from the return of the form to the choice of the output.
CheckChanges ==
    /\ pc = "returned"
    /\ IF updatedDC.cancelled
       THEN pc' = "exit" /\ exit' = "cancelled" /\ doc' = doc
       ELSE IF ~hasChanges(originalDC, updatedDC.dc)
       THEN pc' = "exit" /\ exit' = "unchanged" /\ doc' = doc
       ELSE /\ doc' = [doc EXCEPT !.DublinCore = updatedDC.dc]
            /\ pc' = IF args.outputPath = "" THEN "backup" ELSE "save"
            /\ exit' = exit
    /\ UNCHANGED <<fs, args, clock, originalDC, m, keys, updatedDC, ops, probe>>

\* editWithTUI: the backup made when no output path is given.
Backup ==
    /\ pc = "backup"
    /\ \E how \in {"ok", "read", "write"} :
          \E r \in {createBackup(fs, args.filePath, BackupPath(args.filePath), how)} :
              /\ fs' = r.files
              /\ ops' = Append(ops, IF r.err THEN "backup failed" ELSE "backup")
              /\ pc' = IF r.err THEN "exit" ELSE "save"
              /\ exit' = IF r.err THEN "backup failed" ELSE exit
    /\ UNCHANGED <<args, clock, doc, originalDC, m, keys, updatedDC, probe>>

\* The path editWithTUI saves to.
SavePath == IF args.outputPath = "" THEN args.filePath ELSE args.outputPath

\* editWithTUI: doc.Save(outputPath).
SaveDoc ==
    /\ pc = "save"
    /\ \E failAt \in -1..Len(doc.FileData.entries), closeOk \in BOOLEAN :
          \E r \in {Save(doc, fs, SavePath, failAt, closeOk)} :
              /\ fs' = r.files
              /\ ops' = IF failAt = -1 THEN ops ELSE Append(ops, "create " \o SavePath)
              /\ exit' = IF r.err THEN "save failed" ELSE "saved"
    /\ pc' = "exit"
    /\ UNCHANGED <<args, clock, doc, originalDC, m, keys, updatedDC, probe>>

Next ==
    \/ OpenDoc
    \/ KeyCancel
    \/ KeyNav
    \/ KeyEnter
    \/ KeyRune
    \/ KeyBackspace
    \/ RunEditorReturn
    \/ RunEditorFails
    \/ CheckChanges
    \/ Backup
    \/ SaveDoc

Spec == Init /\ [][Next]_vars

(***************************************************************************)
(* The decoder on its own: extractDublinCore applied to generated          *)
(* metadata entries.                                                       *)
(***************************************************************************)
\* The six fields a metadata entry carries, with the prefix Save writes.
EntryFields ==
    <<<<"Title", "dc:title">>, <<"Creator", "dc:creator">>,
      <<"Subject", "dc:subject">>, <<"Description", "dc:description">>,
      <<"Keywords", "cp:keywords">>, <<"Category", "cp:category">>>>

\* The tag of field i in a style: "std" as Save writes it, "cp" with the cp:
\* prefix, "bare" without a prefix.
StyledTag(i, style) ==
    CASE style = "std" -> EntryFields[i][2]
      [] style = "cp" -> "cp:" \o Local(EntryFields[i][2])
      [] OTHER -> Local(EntryFields[i][2])

\* The values generated for a field that has n of them: "v1", "v2", ...
Values(n) == [k \in 1..n |-> "v" \o SubSeq("123456789", k, k)]

\* The children of an entry with count[i] values of field i.
RECURSIVE GenKids(_, _, _)
GenKids(count, style, i) ==
    IF i > Len(EntryFields) THEN <<>>
    ELSE Elems(StyledTag(i, style), Values(count[i])) \o GenKids(count, style, i + 1)

GenDoc(count, style) == CoreDoc("cp:coreProperties", GenKids(count, style, 1))

\* The archive that carries a generated entry.
ArchiveOf(data) ==
    [p \in {"in.docx"} |-> File(TRUE, <<ContentTypes, Core(data), Document>>)]

Idle ==
    /\ fs = [p \in {"in.docx", "in.docx.backup", "out.docx"} |-> NoFile]
    /\ args = [filePath |-> "", outputPath |-> ""]
    /\ doc = NoDoc
    /\ originalDC = ZeroDC
    /\ m = NoModel
    /\ keys = 0
    /\ updatedDC = NoReturn
    /\ ops = <<>>
    /\ exit = ""

InitDecode ==
    /\ Idle
    /\ pc = "decode"
    /\ clock = 0
    /\ \E count \in [1..Len(EntryFields) -> 0..MaxVals], style \in {"std", "cp", "bare"} :
          probe = [count |-> count, style |-> style, data |-> GenDoc(count, style),
                   out |-> [kind |-> "", doc |-> NoDoc]]

\* docx.Open of the archive that carries the generated entry.
Decode ==
    /\ pc = "decode"
    /\ pc' = "decoded"
    /\ probe' = [probe EXCEPT !.out = Open(ArchiveOf(probe.data), "in.docx", clock)]
    /\ UNCHANGED <<fs, args, clock, doc, originalDC, m, keys, updatedDC, ops, exit>>

NextDecode == Decode

SpecDecode == InitDecode /\ [][NextDecode]_vars

(***************************************************************************)
(* The record's own XML form: ToXML followed by FromXML.                   *)
(***************************************************************************)
\* The fields the generated records vary in.
VariedFields == <<"Title", "Creator", "Type", "Keywords", "Category">>

GenRecord(count) ==
    [f \in DOMAIN ZeroDC |->
        IF \E i \in 1..Len(VariedFields) : VariedFields[i] = f
        THEN Values(count[CHOOSE i \in 1..Len(VariedFields) : VariedFields[i] = f])
        ELSE <<>>]

InitXML ==
    /\ Idle
    /\ pc = "marshal"
    /\ clock = 0
    /\ \E count \in [1..Len(VariedFields) -> 0..MaxVals] :
          probe = [dc |-> GenRecord(count), xml |-> Raw(""),
                   out |-> [err |-> FALSE, dc |-> ZeroDC]]

\* dc.ToXML()
Marshal ==
    /\ pc = "marshal"
    /\ pc' = "unmarshal"
    /\ probe' = [probe EXCEPT !.xml = DCToXML(probe.dc)]
    /\ UNCHANGED <<fs, args, clock, doc, originalDC, m, keys, updatedDC, ops, exit>>

\* dublincore.FromXML(data)
Unmarshal ==
    /\ pc = "unmarshal"
    /\ pc' = "done"
    /\ probe' = [probe EXCEPT !.out = FromXML(probe.xml)]
    /\ UNCHANGED <<fs, args, clock, doc, originalDC, m, keys, updatedDC, ops, exit>>

NextXML == Marshal \/ Unmarshal

SpecXML == InitXML /\ [][NextXML]_vars

(***************************************************************************)
(* Properties of the edit command.                                         *)
(***************************************************************************)
\* The entries of an archive other than the metadata entry, name and bytes.
NonMeta(entries) ==
    LET rest == SelectSeq(entries, LAMBDA e : e.name # corePropertiesPath)
    IN  [i \in 1..Len(rest) |-> <<rest[i].name, Render(rest[i].data)>>]

\* The texts of the elements called tag, in document order.
TextsOf(kids, tag) ==
    LET hits == SelectSeq(kids, LAMBDA e : e.tag = tag)
    IN  [i \in 1..Len(hits) |-> hits[i].text]

RECURSIVE SumLen(_, _)
SumLen(dc, i) ==
    IF i > Len(EntryFields) THEN 0
    ELSE Len(dc[EntryFields[i][1]]) + SumLen(dc, i + 1)

\* The entry holds one element per value of each of the six fields, under
\* the field's prefixed tag, and no other element.
Reflects(data, dc) ==
    /\ data.wf
    /\ data.root = "cp:coreProperties"
    /\ \A i \in 1..Len(EntryFields) :
          TextsOf(data.kids, EntryFields[i][2]) = dc[EntryFields[i][1]]
    /\ Len(data.kids) = SumLen(dc, 1)
    /\ \A k \in 1..Len(data.kids) : data.kids[k].wrap = "" /\ data.kids[k].attrs = <<>>

HasOp(o) == \E i \in 1..Len(ops) : ops[i] = o

\* C1: after a successful Save the output holds every entry of the opened
\* archive other than the metadata entry, with the same name and bytes and
\* in the same order, whatever the output path held before; a save to
\* another path leaves the opened file as it was.
C1_SaveKeepsOtherEntries ==
    exit = "saved" =>
        /\ NonMeta(fs[SavePath].entries) = NonMeta(doc.FileData.entries)
        /\ Len(fs[SavePath].entries) = Len(doc.FileData.entries)
        /\ SavePath # args.filePath => fs[args.filePath] = doc.FileData

C1_Witness ==
    /\ exit = "saved"
    /\ SavePath = "out.docx"
    /\ Len(NonMeta(fs[SavePath].entries)) = 2
    /\ findFile(doc.FileData.entries, corePropertiesPath) = 2

\* C2: after a successful Save of an archive with a metadata entry, the
\* entry of the output reflects the record: one element per value, under the
\* dc: or cp: tag of its field, and none for a field without values.
C2_EntryReflectsRecord ==
    exit = "saved" =>
        \A i \in 1..Len(doc.FileData.entries) :
            doc.FileData.entries[i].name = corePropertiesPath =>
                /\ fs[SavePath].entries[i].name = corePropertiesPath
                /\ Reflects(fs[SavePath].entries[i].data, doc.DublinCore)

C2_Witness ==
    /\ exit = "saved"
    /\ findFile(fs[SavePath].entries, corePropertiesPath) > 0
    /\ Len(doc.DublinCore.Keywords) = 2
    /\ Len(doc.DublinCore.Creator) = 2
    /\ doc.DublinCore.Subject = <<>>

\* C3: Open of a file that is a zip archive returns a container, without an
\* error, an abort or a loop that never ends; without a metadata entry the
\* record is the default one.
C3_OpenOfArchiveReturns ==
    (pc # "start" /\ ops = <<>> /\ fs[args.filePath].zip) =>
        /\ pc # "hung"
        /\ exit \notin {"panic", "open failed"}
        /\ doc.FileData = fs[args.filePath]
        /\ (pc = "editing" /\ findFile(doc.FileData.entries, corePropertiesPath) = 0)
              => doc.DublinCore = New(clock)

\* C4: Open of a file that is not a zip archive returns an error and no
\* container; the form is never shown and no file is written.
C4_OpenOfNonArchiveFails ==
    (pc # "start" /\ ops = <<>> /\ ~fs[args.filePath].zip) =>
        /\ pc = "exit" /\ exit = "open failed"
        /\ doc = NoDoc
        /\ fs["out.docx"] = StaleFile
        /\ fs["in.docx.backup"] = NoFile

C4_Witness ==
    /\ exit = "open failed"
    /\ fs[args.filePath].exists
    /\ ~fs[args.filePath].zip

\* C8: once the form has been submitted the record's category is exactly
\* <<"curriculo">>, whatever it was before, and enforcing it again changes
\* nothing.
C8_CategoryEnforced ==
    m.done =>
        /\ doc.DublinCore.Category = <<"curriculo">>
        /\ SetCategory(doc.DublinCore) = doc.DublinCore
        /\ SetCategory(SetCategory(doc.DublinCore)) = SetCategory(doc.DublinCore)

C8_Witness ==
    /\ m.done
    /\ originalDC.Category = <<"cv">>
    /\ exit = "saved"

\* C9: after a cancel the editor returns the record as Open produced it,
\* with the cancelled flag set, and the command has written no file.
C9_CancelLeavesAllUntouched ==
    exit = "cancelled" =>
        /\ updatedDC.cancelled
        /\ updatedDC.dc = probe.opened.DublinCore
        /\ doc = probe.opened
        /\ fs[args.filePath] = doc.FileData
        /\ ops = <<>>
        /\ fs["out.docx"] = StaleFile
        /\ fs["in.docx.backup"] = NoFile

C9_Witness ==
    /\ exit = "cancelled"
    /\ m.inputs[1] = "Olda"
    /\ doc.DublinCore.Title = <<"Old">>
    /\ doc.DublinCore.Category = <<"cv">>

\* C10: without an output path the backup, a copy of the opened file, is
\* written before the file is overwritten; when the backup fails the file is
\* not touched; with an output path no backup is made.
C10_BackupBeforeOverwrite ==
    /\ (args.outputPath = "" /\ HasOp("create in.docx")) =>
          /\ ops = <<"backup", "create in.docx">>
          /\ fs["in.docx.backup"] = doc.FileData
    /\ exit = "backup failed" =>
          /\ fs[args.filePath] = doc.FileData
          /\ ~HasOp("create in.docx")
    /\ args.outputPath # "" =>
          /\ fs["in.docx.backup"] = NoFile
          /\ ~HasOp("backup") /\ ~HasOp("backup failed")

C10_Witness ==
    /\ exit = "saved"
    /\ args.outputPath = ""
    /\ ops = <<"backup", "create in.docx">>
    /\ fs["in.docx.backup"] # fs["in.docx"]
    /\ fs["in.docx.backup"] = doc.FileData

(***************************************************************************)
(* Properties of the decoder and of the record's XML form.                 *)
(***************************************************************************)
\* The record holds, for each field in the set, the values the generated
\* entry has for it.
Decoded(dc, fields) ==
    \A i \in fields : dc[EntryFields[i][1]] = Values(probe.count[i])

\* C5: an entry with a value for any of title, creator, keywords or
\* description (fields 1, 2, 5, 4) is accepted by the strict decode: Open
\* returns a record that has the entry's values in each of title, creator,
\* subject, description, keywords and category the entry has values for, and
\* the default record's in the others.
C5_AnyOfFourAccepted ==
    (pc = "decoded" /\ \E i \in {1, 2, 4, 5} : probe.count[i] > 0) =>
        /\ probe.out.kind = "ok"
        /\ Decoded(probe.out.doc.DublinCore,
                   {i \in 1..Len(EntryFields) : probe.count[i] > 0})
        /\ \A i \in 1..Len(EntryFields) :
              probe.count[i] = 0 =>
                  probe.out.doc.DublinCore[EntryFields[i][1]]
                      = New(clock)[EntryFields[i][1]]

\* C6: an entry whose elements all carry the cp: prefix and that has a value
\* for each of title, creator, keywords, description and category is decoded
\* with the value sequences of all five.
C6_CpPrefixedDecoded ==
    (pc = "decoded" /\ probe.style = "cp"
        /\ \A i \in {1, 2, 4, 5, 6} : probe.count[i] > 0) =>
        /\ probe.out.kind = "ok"
        /\ Decoded(probe.out.doc.DublinCore, {1, 2, 4, 5, 6})

C6_Witness ==
    /\ pc = "decoded"
    /\ probe.style = "cp"
    /\ \A i \in {1, 2, 4, 5, 6} : probe.count[i] = 2
    /\ probe.out.doc.DublinCore.Category = <<"v1", "v2">>
    /\ probe.out.doc.DublinCore.Title = <<"v1", "v2">>

\* C7: FromXML of the bytes ToXML writes gives back every value sequence of
\* the record in the field it came from.
C7_RoundTrip ==
    pc = "done" =>
        /\ ~probe.out.err
        /\ \A f \in DOMAIN ZeroDC : probe.dc[f] # <<>> => probe.out.dc[f] = probe.dc[f]

(***************************************************************************)
(* The substring extraction on its own: extractField applied to texts that *)
(* hold a known number of <tag>...</tag> occurrences.                      *)
(***************************************************************************)
\* What precedes the first occurrence: nothing, a root tag, or the prolog
\* and root tag Save writes.
Leads ==
    {"", "<cp:coreProperties>",
     Render([CorePropertiesToXML(ZeroDC) EXCEPT !.wf = FALSE])}

\* The text with the values as occurrences of tag, each value padded with
\* pad inside its element and followed by sep.
RECURSIVE Occurrences(_, _, _, _)
Occurrences(tag, values, pad, sep) ==
    IF Len(values) = 0 THEN ""
    ELSE "<" \o tag \o ">" \o pad \o values[1] \o pad \o "</" \o tag \o ">" \o sep
         \o Occurrences(tag, Tail(values), pad, sep)

InitExtract ==
    /\ Idle
    /\ pc = "extract"
    /\ clock = 0
    /\ \E tag \in {"dc:title", "cp:keywords", "subject"}, lead \in Leads,
          k \in 0..MaxVals, pad \in {"", " "}, sep \in {"", "\n  "} :
          probe = [tag |-> tag, k |-> k, lead |-> lead,
                   xmlStr |-> lead \o Occurrences(tag, Values(k), pad, sep),
                   out |-> [kind |-> "", values |-> <<>>]]

\* values := extractField(tag)
Extract ==
    /\ pc = "extract"
    /\ pc' = "extracted"
    /\ probe' = [probe EXCEPT !.out = extractField(probe.xmlStr, probe.tag)]
    /\ UNCHANGED <<fs, args, clock, doc, originalDC, m, keys, updatedDC, ops, exit>>

NextExtract == Extract

SpecExtract == InitExtract /\ [][NextExtract]_vars

\* C11: extractField returns the trimmed inner text of every occurrence of
\* the tag, in document order: k values for k occurrences.
C11_ExtractsEveryOccurrence ==
    pc = "extracted" =>
        /\ probe.out.kind = "ok"
        /\ probe.out.values = Values(probe.k)

\* C15: the scan of extractField ends: its loop never comes back to a search
\* position it has already started from.
C15_ScanTerminates ==
    pc = "extracted" => probe.out.kind # "hang"

(***************************************************************************)
(* Further properties of the edit command.                                 *)
(***************************************************************************)
\* The strict decode of the entry returns an error.
StrictFails(data) == ~data.wf \/ Local(data.root) # "coreProperties"

\* The six fields the metadata entry carries.
SixFields(dc) == [i \in 1..Len(EntryFields) |-> dc[EntryFields[i][1]]]

\* C12: when the strict decode of the metadata entry returns an error, the
\* substring extraction is still run on the same bytes, and what it finds is
\* the record Open returns.
C12_ErrorFallsThrough ==
    LET entries == probe.opened.FileData.entries
        i == findFile(entries, corePropertiesPath)
    IN  (pc = "editing" /\ i > 0 /\ entries[i].readable /\ StrictFails(entries[i].data)) =>
            With(parseCoreXMLAlternative(entries[i].data, clock), LAMBDA r :
                 (r.kind = "ok" /\ Usable(r.dc)) =>
                     SixFields(probe.opened.DublinCore) = SixFields(r.dc))

\* C13: after a submitted edit the command goes on to save exactly when one
\* of title, creator, keywords, description and category differs, as a
\* sequence of strings, from its value before the edit.
C13_SavedIffChanged ==
    /\ exit = "unchanged" => CopyOriginal(updatedDC.dc) = originalDC
    /\ (pc \in {"backup", "save"} \/ exit \in {"backup failed", "save failed", "saved"})
          => CopyOriginal(updatedDC.dc) # originalDC

\* C14: Save returns success only when the complete output archive has been
\* written, its directory included.
C14_SuccessMeansComplete ==
    exit = "saved" =>
        /\ fs[SavePath].zip
        /\ Len(fs[SavePath].entries) = Len(doc.FileData.entries)

\* C16: Open of the path a submitted edit was saved to returns a record with
\* the title, creator, subject, description, keywords and category of the
\* record that was saved.
C16_EditSurvivesSave ==
    exit = "saved" =>
        With(Open(fs, SavePath, clock), LAMBDA r :
             /\ r.kind = "ok"
             /\ SixFields(r.doc.DublinCore) = SixFields(doc.DublinCore))

====
